---------------------------- MODULE Spec2Model ----------------------------
(***************************************************************************)
(* Model of namberino/mcq-generator: the validation scorer                 *)
(* (src/validation_scorer.py) and the retrieval / generation / validation  *)
(* engine of RAGMCQ (src/generator.py).                                    *)
(*                                                                         *)
(* Numbers.  Python floats are modelled as exact fixed-point rationals:    *)
(*   - similarities, confidences, cutoffs: hundredths   (1.0  = Unit)      *)
(*   - config weights: thousandths                      (1.0  = WeightUnit)*)
(*   - a scorer component score (0.0-1.0)               (1.0  = CompDen)   *)
(*   - a validation score (0-100 points)                (1 pt = ScoreDen)  *)
(*   - a validate_mcqs quality_score (0.0-1.0)          (1.0  = QualDen)   *)
(* CompDen is a multiple of every evidence-list length, so the average of  *)
(* the evidence scores is exact.                                           *)
(***************************************************************************)
EXTENDS Integers, Sequences, FiniteSets, TLC

VARIABLES
    \* ---- MCQValidationScorer (src/validation_scorer.py)
    scorer,          \* self.config of the constructed scorer, or NoScorer
    configArg,       \* the config argument of the last construction, or NotCalled
    constructRaised, \* the last construction attempt raised ValueError
    record,          \* validation_data of the last scoring call, or NoRecord
    payload,         \* what make_quality_decision returned for it, or NoPayload
    \* ---- RAGMCQ index state (src/generator.py)
    hasFaiss,        \* _HAS_FAISS: whether the build has faiss installed
    texts,           \* self.texts: the chunks, each [gen, kind]
    metadata,        \* self.metadata: one entry [gen] per chunk
    embeddings,      \* self.embeddings: NoEmbeddings (None) or [gen, n]
    index,           \* self.index: NoIndex (None) or the faiss index [gen, n]
    builds,          \* number of (re)builds started on this instance
    retrieved,       \* outcome of the last _retrieve call, or NoRetrieval
    \* ---- RAGMCQ.generate_from_pdf / generate_from_qdrant
    pc,              \* "idle", "rag", "per_unit", "returned", "raised"
    source,          \* "pdf" or "qdrant"
    mode,            \* "rag", "per_unit" (per_page / per_chunk) or "other"
    n_questions,     \* requested number of questions
    per_unit,        \* per-unit mode: questions_per_page / questions_per_chunk
    unit,            \* per-unit mode: number of chunks already visited
    qcount,          \* running question count
    attempts,        \* rag mode: attempts made
    output,          \* the mapping being filled: key (as a number) -> item,
                     \* an item being [call, entry] of the reply it came in
    error,           \* the exception that ended the call, or "none"
    calls,           \* generator replies so far: [ok, failed, badkeys]
    \* ---- RAGMCQ.validate_mcqs
    vpc,             \* "idle", "item" (loop head), "store", "returned", "raised"
    vparams,         \* the keyword arguments of the call, or NoParams
    vmcqs,           \* number of entries of the mcqs mapping of the call
    vleft,           \* entries of mcqs not yet visited
    vdone,           \* entries of report written so far
    vitem,           \* the MCQ of the current iteration, or NoItem
    vretrieved,      \* what _semantic_search returned for it
    vrecord,         \* the per-question report being stored, or NoReport
    \* ---- MCQValidationScorer.process_batch_validation
    batch,           \* [validation]: the mapping of the last batch call, or NoBatch
    results,         \* the report process_batch_validation returned for it
    quick            \* what generate_quick_summary made of it, or NoSummary

scorerVars == <<scorer, configArg, constructRaised, record, payload>>
indexVars == <<hasFaiss, texts, metadata, embeddings, index, builds, retrieved>>
genVars == <<pc, source, mode, n_questions, per_unit, unit, qcount, attempts, output, error, calls>>

valVars == <<vpc, vparams, vmcqs, vleft, vdone, vitem, vretrieved, vrecord>>

batchVars == <<batch, results, quick>>

vars == <<scorerVars, indexVars, genVars, valVars, batchVars>>

-----------------------------------------------------------------------------
(* Bounds of the model *)

\* longest evidence list of a validation record (validate_mcqs: top_k = 4)
MaxEvidence == 4
\* most chunks one document yields
MaxChunks == 3
\* most (re)builds of the index on one RAGMCQ instance
MaxBuilds == 2
\* largest top_k of a retrieval
MaxTopK == 3
\* largest n_questions of a generate call
MaxQuestions == 2
\* largest questions_per_page / questions_per_chunk
MaxPerUnit == 2
\* most entries of the mcqs mapping one validate_mcqs call is given
MaxMcqs == 2
\* most entries of the validation mapping of one batch
MaxBatch == 3

-----------------------------------------------------------------------------
(* Scales *)

Unit == 10 * 10
WeightUnit == 10 * 10 * 10

Min(a, b) == IF a <= b THEN a ELSE b
Max(a, b) == IF a >= b THEN a ELSE b
Abs(a) == IF a >= 0 THEN a ELSE 0 - a

RECURSIVE Gcd(_, _)
Gcd(a, b) == IF b = 0 THEN a ELSE Gcd(b, a % b)

RECURSIVE LcmUpTo(_)
LcmUpTo(n) == IF n <= 1 THEN 1 ELSE (LcmUpTo(n - 1) * n) \div Gcd(LcmUpTo(n - 1), n)

EvLcm == LcmUpTo(MaxEvidence)
CompDen == 40 * Unit * EvLcm
ScoreDen == 10 * CompDen

\* a Unit-scaled float on the component scale
FromUnit(x) == x * (CompDen \div Unit)

RECURSIVE SumSeq(_)
SumSeq(s) == IF s = <<>> THEN 0 ELSE Head(s) + SumSeq(Tail(s))

-----------------------------------------------------------------------------
(* ValidationConfig *)

NoScorer == [none |-> TRUE]
NoRecord == [none |-> TRUE]
NoPayload == [none |-> TRUE]

\* the dataclass defaults
DefaultConfig ==
    [embedding_weight |-> 400, model_weight |-> 500, evidence_weight |-> 100,
     similarity_threshold |-> 50, evidence_cutoff |-> 50,
     excellent_threshold |-> 85, good_threshold |-> 70,
     acceptable_threshold |-> 55, questionable_threshold |-> 40]

IsSortedThresholds(c) ==
    /\ c.questionable_threshold <= c.acceptable_threshold
    /\ c.acceptable_threshold <= c.good_threshold
    /\ c.good_threshold <= c.excellent_threshold

\* the mutant of validate: the threshold-order check left out
validate_without_order_check(c) ==
    LET total_weight == c.embedding_weight + c.model_weight + c.evidence_weight
    IN  /\ ~(Abs(total_weight - WeightUnit) > 1)
        /\ (0 <= c.similarity_threshold /\ c.similarity_threshold <= Unit)
        /\ (0 <= c.evidence_cutoff /\ c.evidence_cutoff <= Unit)

\* ValidationConfig.validate: TRUE iff no ValueError is raised
validate(c) ==
    LET total_weight == c.embedding_weight + c.model_weight + c.evidence_weight
    IN  /\ ~(Abs(total_weight - WeightUnit) > 1)
        /\ IsSortedThresholds(c)
        /\ (0 <= c.similarity_threshold /\ c.similarity_threshold <= Unit)
        /\ (0 <= c.evidence_cutoff /\ c.evidence_cutoff <= Unit)

-----------------------------------------------------------------------------
(* MCQValidationScorer: the pure scoring functions *)

\* the mutant of calculate_embedding_score: the bonus granted unconditionally
calculate_embedding_score_always_bonus(max_similarity, supported_by_embeddings) ==
    ((FromUnit(max_similarity) * 875) \div 1000) + ((CompDen * 125) \div 1000)

\* base_score = max_similarity * 0.875; support_bonus = 0.125
calculate_embedding_score(max_similarity, supported_by_embeddings) ==
    LET base_score == (FromUnit(max_similarity) * 875) \div 1000
        support_bonus == IF supported_by_embeddings THEN (CompDen * 125) \div 1000 ELSE 0
    IN  base_score + support_bonus

\* the mutant of calculate_model_score: a record without a usable verdict
\* given the neutral score 0.5
calculate_model_score_neutral_when_missing(model_verdict) ==
    IF model_verdict.missing \/ model_verdict.error
    THEN CompDen \div 2
    ELSE IF ~model_verdict.supported
         THEN (FromUnit(model_verdict.confidence) * 3) \div 10
         ELSE (CompDen \div 2) + (FromUnit(model_verdict.confidence) \div 2)

\* a verdict is [missing, error, supported, confidence]; `missing` is the
\* absent key / empty dict / None, `error` is the "error" key being present
calculate_model_score(model_verdict) ==
    IF model_verdict.missing \/ model_verdict.error
    THEN 0
    ELSE IF ~model_verdict.supported
         THEN (FromUnit(model_verdict.confidence) * 3) \div 10
         ELSE (CompDen \div 2) + (FromUnit(model_verdict.confidence) \div 2)

\* the mutant of calculate_evidence_score: 0.1 per piece of evidence
calculate_evidence_score_tenth_each(evidence) ==
    IF evidence = <<>>
    THEN 0
    ELSE Min(CompDen \div 2, Len(evidence) * (CompDen \div 10))
         + ((FromUnit(SumSeq(evidence)) \div Len(evidence)) \div 2)

\* evidence is the sequence of the entries' "score" values
calculate_evidence_score(evidence) ==
    IF evidence = <<>>
    THEN 0
    ELSE LET num_evidence == Len(evidence)
             quantity_score == Min(CompDen \div 2, num_evidence * (CompDen \div 8))
             \* avg_score * 0.5 = sum / (2 * len)
             quality_score == (FromUnit(SumSeq(evidence)) \div num_evidence) \div 2
         IN  quantity_score + quality_score

\* the weighted total before clamping, on the score scale
weighted_total(cfg, validation_data) ==
    LET embedding_score == calculate_embedding_score(validation_data.max_similarity,
                                                     validation_data.supported_by_embeddings)
        model_score == calculate_model_score(validation_data.model_verdict)
        evidence_score == calculate_evidence_score(validation_data.evidence)
    IN  embedding_score * cfg.embedding_weight
        + model_score * cfg.model_weight
        + evidence_score * cfg.evidence_weight

\* the mutant of clamp_score: the total returned without the min/max
clamp_score_unclamped(total_score) == total_score

\* return min(100.0, max(0.0, total_score))
clamp_score(total_score) == Min(100 * ScoreDen, Max(0, total_score))

calculate_validation_score(cfg, validation_data) ==
    clamp_score(weighted_total(cfg, validation_data))

\* the mutant of get_validation_category: strict comparisons
get_validation_category_strict(cfg, score) ==
    IF score > cfg.excellent_threshold * ScoreDen THEN "EXCELLENT"
    ELSE IF score > cfg.good_threshold * ScoreDen THEN "GOOD"
    ELSE IF score > cfg.acceptable_threshold * ScoreDen THEN "ACCEPTABLE"
    ELSE IF score > cfg.questionable_threshold * ScoreDen THEN "QUESTIONABLE"
    ELSE "POOR"

get_validation_category(cfg, score) ==
    IF score >= cfg.excellent_threshold * ScoreDen THEN "EXCELLENT"
    ELSE IF score >= cfg.good_threshold * ScoreDen THEN "GOOD"
    ELSE IF score >= cfg.acceptable_threshold * ScoreDen THEN "ACCEPTABLE"
    ELSE IF score >= cfg.questionable_threshold * ScoreDen THEN "QUESTIONABLE"
    ELSE "POOR"

\* model_verdict.get("supported", False) and model_verdict.get("confidence", 0) >= 0.8
strong_model_support(model_verdict) ==
    /\ ~model_verdict.missing
    /\ model_verdict.supported
    /\ model_verdict.confidence * 10 >= 8 * Unit

\* the mutant of acceptable_band_decision: the branch taken on the embedding
\* similarity instead of the model verdict
acceptable_band_on_similarity(validation_data) ==
    IF validation_data.max_similarity * 10 >= 8 * Unit
    THEN [decision |-> "CONDITIONAL_APPROVE", priority |-> "MEDIUM"]
    ELSE [decision |-> "REVIEW_REQUIRED", priority |-> "HIGH"]

\* the ACCEPTABLE band of make_quality_decision
acceptable_band_decision(validation_data) ==
    IF strong_model_support(validation_data.model_verdict)
    THEN [decision |-> "CONDITIONAL_APPROVE", priority |-> "MEDIUM"]
    ELSE [decision |-> "REVIEW_REQUIRED", priority |-> "HIGH"]

\* the payload without its "action" and "reasoning" strings
make_quality_decision(cfg, validation_data) ==
    LET score == calculate_validation_score(cfg, validation_data)
        category == get_validation_category(cfg, score)
        d == IF score >= cfg.excellent_threshold * ScoreDen
                 THEN [decision |-> "APPROVE", priority |-> "LOW"]
             ELSE IF score >= cfg.good_threshold * ScoreDen
                 THEN [decision |-> "APPROVE_WITH_REVIEW", priority |-> "LOW"]
             ELSE IF score >= cfg.acceptable_threshold * ScoreDen
                 THEN acceptable_band_decision(validation_data)
             ELSE IF score >= cfg.questionable_threshold * ScoreDen
                 THEN [decision |-> "REJECT_WITH_FEEDBACK", priority |-> "HIGH"]
             ELSE [decision |-> "REJECT", priority |-> "CRITICAL"]
    IN  [decision |-> d.decision, priority |-> d.priority,
         score |-> score, category |-> category]

-----------------------------------------------------------------------------
(* MCQValidationScorer: construction *)

NotCalled == [called |-> FALSE]
ConfigNone == [none |-> TRUE]
Raised == [raised |-> TRUE]

\* ValidationConfig(**fields): __post_init__ runs validate(); the object is
\* returned only if validate() does not raise
NewValidationConfig(fields) == IF validate(fields) THEN fields ELSE Raised

\* MCQValidationScorer.__init__: None -> the defaults, a dict -> its fields;
\* a ValidationConfig instance passed in went through the same __post_init__
\* when it was built
scorer_init(config) ==
    IF config = ConfigNone
    THEN NewValidationConfig(DefaultConfig)
    ELSE NewValidationConfig(config)

\* (embedding_weight, model_weight, evidence_weight)
WeightTriples ==
    { <<400, 500, 100>>, <<401, 500, 100>>, <<402, 500, 100>>,
      <<398, 500, 100>>, <<0 - 500, 1400, 100>>, <<400, 400, 100>> }

\* (questionable, acceptable, good, excellent)
ThresholdQuads ==
    { <<40, 55, 70, 85>>, <<0, 55, 70, 85>>, <<40, 40, 70, 85>>,
      <<55, 40, 70, 85>>, <<40, 55, 85, 70>> }

CutoffValues == { 0 - 1, 50, 101 }

ConfigArgs ==
    { [embedding_weight |-> w[1], model_weight |-> w[2], evidence_weight |-> w[3],
       similarity_threshold |-> s, evidence_cutoff |-> c,
       excellent_threshold |-> t[4], good_threshold |-> t[3],
       acceptable_threshold |-> t[2], questionable_threshold |-> t[1]] :
      w \in WeightTriples, t \in ThresholdQuads, s \in CutoffValues, c \in CutoffValues }

Construct(config) ==
    /\ scorer = NoScorer
    /\ configArg' = config
    /\ LET built == scorer_init(config)
       IN  IF built = Raised
           THEN /\ constructRaised' = TRUE
                /\ scorer' = NoScorer
           ELSE /\ constructRaised' = FALSE
                /\ scorer' = built
    /\ UNCHANGED <<record, payload>>

-----------------------------------------------------------------------------
(* MCQValidationScorer: scoring a validation record *)

MaxSimilarities == { 0, 50, 100, 150 }
EvidenceScores == { 0, 100 }
Confidences == { 60, 80, 100 }

IsNonIncreasing(s) == \A i \in 1..(Len(s) - 1) : s[i] >= s[i + 1]

\* evidence comes in retrieval order
EvidenceLists ==
    { e \in UNION { [1..n -> EvidenceScores] : n \in 0..MaxEvidence } : IsNonIncreasing(e) }

MissingVerdict == [missing |-> TRUE, error |-> FALSE, supported |-> FALSE, confidence |-> 0]

Verdicts ==
    { MissingVerdict }
    \cup { [missing |-> FALSE, error |-> TRUE, supported |-> FALSE, confidence |-> 0],
           [missing |-> FALSE, error |-> TRUE, supported |-> TRUE, confidence |-> 100] }
    \cup [missing : {FALSE}, error : {FALSE}, supported : BOOLEAN, confidence : Confidences]

\* the record fields the scorer reads, and the validate_mcqs fields named by
\* the monotonicity property, which the scorer never reads
Records ==
    [max_similarity : MaxSimilarities, supported_by_embeddings : BOOLEAN,
     evidence : EvidenceLists, model_verdict : Verdicts,
     correct_entailment : {0}, qa_score : {50}, qa_agrees : {TRUE}]

\* a call of make_quality_decision on the constructed scorer
MakeQualityDecision(validation_data) ==
    /\ scorer # NoScorer
    /\ record = NoRecord
    /\ record' = validation_data
    /\ payload' = make_quality_decision(scorer, validation_data)
    /\ UNCHANGED <<scorer, configArg, constructRaised>>

\* the caller drops the returned payload; the scorer keeps no state of a call
DropPayload ==
    /\ record # NoRecord
    /\ record' = NoRecord
    /\ payload' = NoPayload
    /\ UNCHANGED <<scorer, configArg, constructRaised>>

ScorerInit ==
    /\ scorer = NoScorer
    /\ configArg = NotCalled
    /\ constructRaised = FALSE
    /\ record = NoRecord
    /\ payload = NoPayload

-----------------------------------------------------------------------------
(* RAGMCQ: the chunk store and the embedding index *)

NoEmbeddings == [none |-> TRUE]
NoIndex == [none |-> TRUE]
NoRetrieval == [status |-> "none"]

\* what a chunk's text is like: "long" has a sentence of more than 20
\* characters, "short" is non-blank without one, "blank" is empty/whitespace
PdfKinds == { "long", "short" }
QdrantKinds == { "long", "short", "blank" }

SeqsUpTo(S, n) == UNION { [1..m -> S] : m \in 0..n }

\* state of a fresh RAGMCQ (__init__)
IndexInit ==
    /\ texts = <<>>
    /\ metadata = <<>>
    /\ embeddings = NoEmbeddings
    /\ index = NoIndex
    /\ builds = 0
    /\ retrieved = NoRetrieval

\* _build_faiss_index, given the embeddings [gen, n] just computed
build_faiss_index(emb) == IF hasFaiss THEN emb ELSE NoIndex

\* build_index_from_pdf.  kinds: the chunks chunk_text yields for the pages;
\* outcome: what the collaborators do ("extract_raises": fitz/pymupdf4llm
\* raises, "embed_raises": embedder.encode raises, "ok").  The result is
\* [raised, texts, metadata, embeddings, index].
build_index_from_pdf(kinds, outcome, gen) ==
    LET new_texts == [i \in 1..Len(kinds) |-> [gen |-> gen, kind |-> kinds[i]]]
        new_meta == [i \in 1..Len(kinds) |-> [gen |-> gen]]
        emb == [gen |-> gen, n |-> Len(kinds)]
    IN  IF outcome = "extract_raises"
        THEN [raised |-> TRUE, texts |-> texts, metadata |-> metadata,
              embeddings |-> embeddings, index |-> index]
        ELSE IF new_texts = <<>> \/ outcome = "embed_raises"
        THEN [raised |-> TRUE, texts |-> new_texts, metadata |-> new_meta,
              embeddings |-> embeddings, index |-> index]
        ELSE [raised |-> FALSE, texts |-> new_texts, metadata |-> new_meta,
              embeddings |-> emb, index |-> build_faiss_index(emb)]

BuildOutcomes == { "ok", "extract_raises", "embed_raises" }

BuildIndexFromPdf(kinds, outcome) ==
    /\ builds < MaxBuilds
    /\ builds' = builds + 1
    /\ LET b == build_index_from_pdf(kinds, outcome, builds + 1)
       IN  /\ texts' = b.texts
           /\ metadata' = b.metadata
           /\ embeddings' = b.embeddings
           /\ index' = b.index
    /\ retrieved' = NoRetrieval
    /\ UNCHANGED hasFaiss

-----------------------------------------------------------------------------
(* RAGMCQ._retrieve and validate_mcqs._semantic_search *)

\* the cosine similarity of the query to each indexed vector
SimValues == { 10, 50, 90 }

IsPermutation(p, n) == \A i, j \in 1..n : p[i] = p[j] => i = j

\* the row orders a sort by ascending `key` can yield; rows of equal key come
\* in any order (np.argsort's default quicksort is not stable, and faiss
\* gives no order among equal distances)
SortOrders(key, n) ==
    { p \in [1..n -> 1..n] :
        /\ IsPermutation(p, n)
        /\ \A i, j \in 1..n : i < j => key[p[i]] <= key[p[j]] }

\* faiss.IndexHNSWFlat(d, M) is built with faiss's default metric, L2:
\* search returns the squared L2 distances, nearest first; between
\* L2-normalised vectors that is 2 - 2*cos
faiss_search(sims, top_k) ==
    LET n == Len(sims)
        dist == [i \in 1..n |-> 2 * Unit - 2 * sims[i]]
    IN  { [i \in 1..Min(top_k, n) |-> [idx |-> p[i], score |-> dist[p[i]]]] :
          p \in SortOrders(dist, n) }

\* idxs = np.argsort(-sims)[:top_k]; [(i, sims[i]) for i in idxs]
brute_force_search(sims, top_k) ==
    LET n == Len(sims)
        neg == [i \in 1..n |-> 0 - sims[i]]
    IN  { [i \in 1..Min(top_k, n) |-> [idx |-> p[i], score |-> sims[p[i]]]] :
          p \in SortOrders(neg, n) }

\* how many vectors a query runs against, 0 - 1 when the call raises
\* (self.index / self.embeddings still None)
retrieve_rows ==
    IF hasFaiss
    THEN IF index = NoIndex THEN 0 - 1 ELSE index.n
    ELSE IF embeddings = NoEmbeddings THEN 0 - 1 ELSE embeddings.n

\* the lists _retrieve may return; sims has one entry per indexed vector
\* (chunk indices are 1-based here, 0-based in the code)
retrieve_results(sims, top_k) ==
    IF hasFaiss THEN faiss_search(sims, top_k) ELSE brute_force_search(sims, top_k)

\* a call of _retrieve on the built index
Retrieve(sims, top_k) ==
    /\ retrieved = NoRetrieval
    /\ retrieve_rows = Len(sims)
    /\ \E r \in retrieve_results(sims, top_k) :
          retrieved' = [status |-> "ok", sims |-> sims, top_k |-> top_k, result |-> r]
    /\ UNCHANGED <<hasFaiss, texts, metadata, embeddings, index, builds>>

\* a call of _retrieve with nothing to search
RetrieveUnbuilt ==
    /\ retrieved = NoRetrieval
    /\ retrieve_rows < 0
    /\ retrieved' = [status |-> "raised"]
    /\ UNCHANGED <<hasFaiss, texts, metadata, embeddings, index, builds>>

\* the caller drops the returned list
DropRetrieved ==
    /\ retrieved # NoRetrieval
    /\ retrieved' = NoRetrieval
    /\ UNCHANGED <<hasFaiss, texts, metadata, embeddings, index, builds>>

-----------------------------------------------------------------------------
(* RAGMCQ.generate_from_pdf / generate_from_qdrant *)

NoCalls == [ok |-> 0, failed |-> 0, badkeys |-> 0]
EmptyOutput == <<>>

GenInit ==
    /\ pc = "idle"
    /\ source = "none"
    /\ mode = "none"
    /\ n_questions = 0
    /\ per_unit = 0
    /\ unit = 0
    /\ qcount = 0
    /\ attempts = 0
    /\ output = EmptyOutput
    /\ error = "none"
    /\ calls = NoCalls

Modes == { "rag", "per_unit", "other" }

\* where the call goes once the index is built
mode_entry(m) ==
    IF m = "per_unit" THEN [pc |-> "per_unit", error |-> "none"]
    ELSE IF m = "rag" THEN [pc |-> "rag", error |-> "none"]
    ELSE [pc |-> "raised", error |-> "ValueError"]

\* generate_from_pdf up to the mode branch: build_index_from_pdf, then
\* output = {}, qcount = 0
StartGenerateFromPdf(kinds, outcome, n, mode_arg, per) ==
    /\ pc = "idle"
    /\ builds < MaxBuilds
    /\ builds' = builds + 1
    /\ LET b == build_index_from_pdf(kinds, outcome, builds + 1)
       IN  /\ texts' = b.texts
           /\ metadata' = b.metadata
           /\ embeddings' = b.embeddings
           /\ index' = b.index
           /\ pc' = IF b.raised THEN "raised" ELSE mode_entry(mode_arg).pc
           /\ error' = IF b.raised THEN "BuildError" ELSE mode_entry(mode_arg).error
    /\ source' = "pdf"
    /\ mode' = mode_arg
    /\ n_questions' = n
    /\ per_unit' = IF mode_arg = "per_unit" THEN per ELSE 0
    /\ unit' = 0
    /\ qcount' = 0
    /\ attempts' = 0
    /\ output' = EmptyOutput
    /\ calls' = NoCalls
    /\ UNCHANGED <<hasFaiss, retrieved>>

\* generate_from_qdrant's index set-up.  kinds: the texts of the file's
\* points; outcome "no_client": self.qdrant is None, "embed_raises", "ok"
qdrant_setup(kinds, outcome, gen) ==
    LET new_texts == [i \in 1..Len(kinds) |-> [gen |-> gen, kind |-> kinds[i]]]
        new_meta == [i \in 1..Len(kinds) |-> [gen |-> gen]]
        emb == [gen |-> gen, n |-> Len(kinds)]
    IN  IF outcome = "no_client" \/ kinds = <<>>
        THEN [raised |-> TRUE, texts |-> texts, metadata |-> metadata,
              embeddings |-> embeddings, index |-> index]
        ELSE IF outcome = "embed_raises"
        THEN [raised |-> TRUE, texts |-> new_texts, metadata |-> new_meta,
              embeddings |-> embeddings, index |-> index]
        ELSE [raised |-> FALSE, texts |-> new_texts, metadata |-> new_meta,
              embeddings |-> emb, index |-> build_faiss_index(emb)]

QdrantOutcomes == { "ok", "no_client", "embed_raises" }

StartGenerateFromQdrant(kinds, outcome, n, mode_arg, per) ==
    /\ pc = "idle"
    /\ builds < MaxBuilds
    /\ builds' = builds + 1
    /\ LET b == qdrant_setup(kinds, outcome, builds + 1)
       IN  /\ texts' = b.texts
           /\ metadata' = b.metadata
           /\ embeddings' = b.embeddings
           /\ index' = b.index
           /\ pc' = IF b.raised THEN "raised" ELSE mode_entry(mode_arg).pc
           /\ error' = IF b.raised THEN "BuildError" ELSE mode_entry(mode_arg).error
    /\ source' = "qdrant"
    /\ mode' = mode_arg
    /\ n_questions' = n
    /\ per_unit' = IF mode_arg = "per_unit" THEN per ELSE 0
    /\ unit' = 0
    /\ qcount' = 0
    /\ attempts' = 0
    /\ output' = EmptyOutput
    /\ calls' = NoCalls
    /\ UNCHANGED <<hasFaiss, retrieved>>

\* what generate_mcqs_from_text does: "raises" (the request fails, or the
\* reply is no dict of exactly n entries), "ok" (n entries under numeral
\* keys), "badkeys" (n entries, some key no numeral)
Replies == { "raises", "ok", "badkeys" }

\* the seed of a rag attempt on the picked chunk: "sentence", "fallback", or
\* "IndexError".  generate_from_pdf: random.choice([...long sentences...])
\* if sents else chunk[:200], and re.split never returns an empty list
seed_from_pdf(kind) == IF kind = "long" THEN "sentence" ELSE "IndexError"

\* generate_from_qdrant: random.choice(candidate) if candidate, else the
\* first 200 characters, else "[no text available]"
seed_from_qdrant(kind) == IF kind = "long" THEN "sentence" ELSE "fallback"

seed_of(src, kind) == IF src = "pdf" THEN seed_from_pdf(kind) ELSE seed_from_qdrant(kind)

\* the mutant of Put: the item filed under the number of the call it came from
Put_under_call(out, key, item) ==
    [k \in (DOMAIN out) \cup {item.call} |-> IF k = item.call THEN item ELSE out[k]]

\* output[str(qcount)] = item
Put(out, key, item) == [k \in (DOMAIN out) \cup {key} |-> IF k = key THEN item ELSE out[k]]

\* the accepting loop over one reply of `size` entries: qcount += 1,
\* output[str(qcount)] = ..., return as soon as qcount >= n_questions.
\* Entries `entry`..`size` of successful call number `call` are still to
\* be taken.  The result is [qcount, output, returned].
RECURSIVE accept_block(_, _, _, _, _, _)
accept_block(call, entry, size, qc, out, n) ==
    IF entry > size
    THEN [qcount |-> qc, output |-> out, returned |-> FALSE]
    ELSE LET qc1 == qc + 1
             out1 == Put(out, qc1, [call |-> call, entry |-> entry])
         IN  IF qc1 >= n
             THEN [qcount |-> qc1, output |-> out1, returned |-> TRUE]
             ELSE accept_block(call, entry + 1, size, qc1, out1, n)

\* one iteration of the rag while-loop
RagAttempt(seed_idx, reply) ==
    /\ pc = "rag"
    /\ qcount < n_questions /\ attempts < n_questions * 4
    /\ seed_idx \in 1..Len(texts)
    /\ attempts' = attempts + 1
    /\ IF seed_of(source, texts[seed_idx].kind) = "IndexError"
       THEN /\ pc' = "raised"
            /\ error' = "IndexError"
            /\ UNCHANGED <<qcount, output, calls>>
       ELSE IF reply = "raises"
       THEN /\ calls' = [calls EXCEPT !.failed = @ + 1]
            /\ UNCHANGED <<pc, error, qcount, output>>
       ELSE IF reply = "badkeys"
       THEN /\ calls' = [calls EXCEPT !.badkeys = @ + 1]
            /\ pc' = "raised"
            /\ error' = "ValueError"
            /\ UNCHANGED <<qcount, output>>
       ELSE LET a == accept_block(calls.ok + 1, 1, 1, qcount, output, n_questions)
            IN  /\ calls' = [calls EXCEPT !.ok = @ + 1]
                /\ qcount' = a.qcount
                /\ output' = a.output
                /\ pc' = IF a.returned THEN "returned" ELSE pc
                /\ UNCHANGED error
    /\ UNCHANGED <<source, mode, n_questions, per_unit, unit>>
    /\ UNCHANGED indexVars

\* the while condition is false: return output
RagExhausted ==
    /\ pc = "rag"
    /\ ~(qcount < n_questions /\ attempts < n_questions * 4)
    /\ pc' = "returned"
    /\ UNCHANGED <<source, mode, n_questions, per_unit, unit, qcount, attempts, output, error, calls>>
    /\ UNCHANGED indexVars

\* one iteration of the per-page / per-chunk for-loop
PerUnitStep(reply) ==
    /\ pc = "per_unit"
    /\ unit < Len(texts)
    /\ unit' = unit + 1
    /\ IF texts[unit + 1].kind = "blank"
       THEN UNCHANGED <<pc, error, qcount, output, calls>>
       ELSE IF reply = "raises"
       THEN /\ calls' = [calls EXCEPT !.failed = @ + 1]
            /\ UNCHANGED <<pc, error, qcount, output>>
       ELSE IF reply = "badkeys"
       THEN /\ calls' = [calls EXCEPT !.badkeys = @ + 1]
            /\ pc' = "raised"
            /\ error' = "ValueError"
            /\ UNCHANGED <<qcount, output>>
       ELSE LET a == accept_block(calls.ok + 1, 1, per_unit, qcount, output, n_questions)
            IN  /\ calls' = [calls EXCEPT !.ok = @ + 1]
                /\ qcount' = a.qcount
                /\ output' = a.output
                /\ pc' = IF a.returned THEN "returned" ELSE pc
                /\ UNCHANGED error
    /\ UNCHANGED <<source, mode, n_questions, per_unit, attempts>>
    /\ UNCHANGED indexVars

\* the for-loop is over: return output
PerUnitExhausted ==
    /\ pc = "per_unit"
    /\ unit >= Len(texts)
    /\ pc' = "returned"
    /\ UNCHANGED <<source, mode, n_questions, per_unit, unit, qcount, attempts, output, error, calls>>
    /\ UNCHANGED indexVars

-----------------------------------------------------------------------------
(* RAGMCQ.validate_mcqs: the per-question pipeline *)

NoParams == [none |-> TRUE]
NoItem == [none |-> TRUE]
NoReport == [none |-> TRUE]

\* 1.0 of a quality_score: the weights 0.40 / 0.35 / 0.20 / 0.05 are
\* hundredths and so are the quantities they multiply
QualDen == 100 * Unit

\* A text is [norm, form]: two texts are the same string iff they are equal,
\* and _norm_text maps them to the same string iff their norm is equal
\* (forms of one norm differ in case, punctuation or spacing).
EmptyText == [norm |-> 0, form |-> 0]
norm_text(t) == t.norm

RECURSIVE SeqMin(_)
SeqMin(s) == IF Len(s) = 1 THEN s[1] ELSE Min(s[1], SeqMin(Tail(s)))

RECURSIVE SeqMax(_)
SeqMax(s) == IF Len(s) = 1 THEN s[1] ELSE Max(s[1], SeqMax(Tail(s)))

\* the keyword arguments of validate_mcqs at their defaults
DefaultParams ==
    [top_k |-> 4, similarity_threshold |-> 50, evidence_score_cutoff |-> 50,
     use_cross_encoder |-> TRUE, use_qa |-> TRUE,
     auto_accept_threshold |-> 70, review_threshold |-> 50,
     distractor_too_similar |-> 80, distractor_too_different |-> 15]

\* An MCQ item is [question, options, answer]: question says whether a stem
\* is present, options is the option dict in its order, each [key, text],
\* answer is [is_str, key, text]: the answer field as a string (key: the
\* option key it spells, "" when it spells none; text: the string as a text).
\* lines 366-386: the correct text the item resolves to
correct_text_of(item) ==
    LET hit == { i \in 1..Len(item.options) : item.options[i].key = item.answer.key }
    IN  IF item.answer.is_str /\ hit # {}
        THEN item.options[CHOOSE i \in hit : TRUE].text
        ELSE IF item.answer.is_str THEN item.answer.text
        ELSE EmptyText

\* _semantic_search: the number of vectors searched, 0 - 1 when the brute
\* force path finds self.embeddings still None and raises
semantic_search_rows ==
    IF hasFaiss /\ index # NoIndex THEN index.n
    ELSE IF embeddings = NoEmbeddings THEN 0 - 1 ELSE embeddings.n

\* _semantic_search: the lists it may return
semantic_search(sims, k) ==
    IF hasFaiss /\ index # NoIndex
    THEN faiss_search(sims, k)
    ELSE brute_force_search(sims, k)

\* lines 392-395: self.texts[ridx] raises IndexError for a row the chunk
\* store no longer has
context_raises(found) == \E i \in 1..Len(found) : found[i].idx > Len(texts)

\* lines 398-412: evidence list, max_sim, supported_by_embeddings
RECURSIVE running_max(_, _)
running_max(found, max_sim) ==
    IF found = <<>> THEN max_sim
    ELSE running_max(Tail(found),
                     IF found[1].score > max_sim THEN found[1].score ELSE max_sim)

evidence_stage(params, found) ==
    LET max_sim == running_max(found, 0)
    IN  [evidence |-> SelectSeq(found, LAMBDA r : r.score >= params.evidence_score_cutoff),
         max_similarity |-> max_sim,
         supported_by_embeddings |-> max_sim >= params.similarity_threshold]

\* lines 437-441: the first option whose normalised text is that of the
\* correct text, 0 when there is none
matched_index(options, correct_text) ==
    LET hit == { i \in 1..Len(options) : norm_text(options[i].text) = norm_text(correct_text) }
    IN  IF hit = {} THEN 0 ELSE CHOOSE i \in hit : \A j \in hit : i <= j

\* lines 414-455.  reply is what cross_entail.predict does: [raises, raw,
\* extra], raw the score per option and extra the score of the separate
\* hypothesis built from correct_text.  Result [scores, correct].
entailment_stage(params, has_context, options, correct_text, reply) ==
    IF ~params.use_cross_encoder \/ ~has_context \/ reply.raises
    THEN [scores |-> <<>>, correct |-> 0]
    ELSE LET n == Len(options)
             min_s == IF n > 0 THEN SeqMin(reply.raw) ELSE 0
             max_s == IF n > 0 THEN SeqMax(reply.raw) ELSE Unit
             denom == IF max_s - min_s > 0 THEN max_s - min_s ELSE Unit
             scaled == [i \in 1..n |->
                          [key |-> options[i].key,
                           score |-> ((reply.raw[i] - min_s) * Unit) \div denom]]
             m == matched_index(options, correct_text)
         IN  [scores |-> scaled,
              correct |-> IF m > 0 THEN scaled[m].score
                          ELSE ((reply.extra - min_s) * Unit) \div denom]

\* the mutant of qa_stage: agreement asked for at a cosine of 0.8
qa_stage_agreeing_at_080(params, has_context, reply) ==
    IF ~params.use_qa \/ ~has_context \/ reply.raises
    THEN [answered |-> FALSE, score |-> 0, agrees |-> FALSE]
    ELSE [answered |-> TRUE, score |-> reply.score, agrees |-> reply.score >= 80]

\* lines 461-484.  reply is [raises, score]: score the cosine of the QA
\* answer to the correct text.  Result [answered, score, agrees].
qa_stage(params, has_context, reply) ==
    IF ~params.use_qa \/ ~has_context \/ reply.raises
    THEN [answered |-> FALSE, score |-> 0, agrees |-> FALSE]
    ELSE [answered |-> TRUE, score |-> reply.score, agrees |-> reply.score >= 50]

\* lines 486-493.  reply is [raises, sims]: the cosine of each option to the
\* correct text.  Result: per option [key, none, sim].
distractor_similarities_of(options, reply) ==
    [i \in 1..Len(options) |->
        [key |-> options[i].key,
         none |-> reply.raises,
         sim |-> IF reply.raises THEN 0 ELSE reply.sims[i]]]

\* line 499: the options the flag loop skips
distractor_skipped(d) ==
    d.none \/ d.sim >= Unit \/ (d.sim >= 0 - 1 /\ d.sim <= 0)

\* lines 495-506: the flag of one option, "none" when it gets none
distractor_reason(params, d) ==
    IF distractor_skipped(d) THEN "none"
    ELSE IF d.sim >= params.distractor_too_similar THEN "too_similar"
    ELSE IF d.sim <= params.distractor_too_different THEN "too_different"
    ELSE "none"

distractor_flags_of(params, dsims) ==
    LET flagged == SelectSeq(dsims, LAMBDA d : distractor_reason(params, d) # "none")
    IN  [i \in 1..Len(flagged) |->
            [key |-> flagged[i].key,
             reason |-> distractor_reason(params, flagged[i]),
             similarity |-> flagged[i].sim]]

\* lines 496-508: 0.25 per too_similar, 0.15 per too_different, at most 1.0
distractor_penalty_of(flags) ==
    Min(Unit, SumSeq([i \in 1..Len(flags) |->
                        IF flags[i].reason = "too_similar" THEN 25 ELSE 15]))

\* lines 510-519: options entailed at least as well as
\* max(correct_entail * 0.9, 0.6) whose text is not the correct text
ambiguous_options_of(options, correct_text, entail) ==
    LET amb_thresh10 == Max(entail.correct * 9, 6 * Unit)
        picked == { i \in 1..Len(entail.scores) :
                       /\ entail.scores[i].score * 10 >= amb_thresh10
                       /\ options[i].text # correct_text }
    IN  SelectSeq(entail.scores, LAMBDA e :
            \E i \in picked : entail.scores[i].key = e.key)

\* lines 527-537: the weighted sum, in QualDen
weighted_quality(max_sim, correct_entail, qa, distractor_penalty) ==
    40 * max_sim + 35 * correct_entail
      + 20 * (IF qa.agrees THEN qa.score ELSE 0) - 5 * distractor_penalty

clamp_quality_unclamped(quality_score) == quality_score

\* the mutant of triage_action_of: ambiguity not looked at
triage_action_ignoring_ambiguity(params, quality_score, ambiguous) ==
    IF quality_score >= 100 * params.auto_accept_threshold THEN "pass"
    ELSE IF quality_score >= 100 * params.review_threshold THEN "review"
    ELSE "reject"

\* line 539: max(0.0, min(1.0, quality_score))
clamp_quality(quality_score) == Max(0, Min(QualDen, quality_score))

\* lines 541-548
triage_action_of(params, quality_score, ambiguous) ==
    IF quality_score >= 100 * params.auto_accept_threshold /\ ~ambiguous THEN "pass"
    ELSE IF quality_score >= 100 * params.review_threshold THEN "review"
    ELSE "reject"

\* lines 550-561, the distractor_issues entry named by its key only
flag_reasons_of(params, ev, entail, qa, ambiguous, flags) ==
    (IF ~ev.supported_by_embeddings THEN <<"no_strong_embedding_evidence">> ELSE <<>>)
    \o (IF entail.scores # <<>> /\ entail.correct < 60
        THEN <<"low_entailment_score_for_correct">> ELSE <<>>)
    \o (IF params.use_qa /\ qa.score > 60 /\ ~qa.agrees
        THEN <<"qa_contradiction">> ELSE <<>>)
    \o (IF ambiguous THEN <<"ambiguous_options_supported">> ELSE <<>>)
    \o (IF flags # <<>> THEN <<"distractor_issues">> ELSE <<>>)

\* one iteration of the main loop (lines 364-580) once retrieval has returned
\* `found`: the record stored under the question's id
validate_question(params, item, found, entail_reply, qa_reply, distractor_reply) ==
    LET options == item.options
        correct_text == correct_text_of(item)
        has_context == found # <<>>
        ev == evidence_stage(params, found)
        entail == entailment_stage(params, has_context, options, correct_text, entail_reply)
        qa == qa_stage(params, has_context, qa_reply)
        dsims == distractor_similarities_of(options, distractor_reply)
        flags == distractor_flags_of(params, dsims)
        penalty == distractor_penalty_of(flags)
        ambiguous_options == ambiguous_options_of(options, correct_text, entail)
        ambiguous == ambiguous_options # <<>>
        quality_score == clamp_quality(
            weighted_quality(ev.max_similarity, entail.correct, qa, penalty))
    IN  [supported_by_embeddings |-> ev.supported_by_embeddings,
         max_similarity |-> ev.max_similarity,
         evidence |-> ev.evidence,
         entailment_scores |-> entail.scores,
         correct_entailment |-> entail.correct,
         qa_answered |-> qa.answered,
         qa_score |-> qa.score,
         qa_agrees |-> qa.agrees,
         distractor_similarities |-> dsims,
         distractor_flags |-> flags,
         distractor_penalty |-> penalty,
         ambiguous_options |-> ambiguous_options,
         quality_score |-> quality_score,
         triage_action |-> triage_action_of(params, quality_score, ambiguous),
         flag_reasons |-> flag_reasons_of(params, ev, entail, qa, ambiguous, flags)]

\* ---- the inputs

\* keyword arguments: the defaults; a call with every threshold moved and
\* review above auto-accept; a call with both optional models switched off
ParamSets ==
    { DefaultParams,
      [top_k |-> 1, similarity_threshold |-> 95, evidence_score_cutoff |-> 0,
       use_cross_encoder |-> TRUE, use_qa |-> TRUE,
       auto_accept_threshold |-> 40, review_threshold |-> 60,
       distractor_too_similar |-> 50, distractor_too_different |-> 50],
      [DefaultParams EXCEPT !.use_cross_encoder = FALSE, !.use_qa = FALSE] }

TextA == [norm |-> 1, form |-> 1]
TextAVariant == [norm |-> 1, form |-> 2]
TextB == [norm |-> 2, form |-> 1]
TextOther == [norm |-> 3, form |-> 1]
TextOfKey == [norm |-> 4, form |-> 1]

TwoOptions == << [key |-> "a", text |-> TextA], [key |-> "b", text |-> TextB] >>

\* answer given as the key "a"; as the text of option a; as that text in
\* another case/punctuation; as a text no option has; an item with no
\* fields; a stem and a key answer but no options
Items ==
    { [question |-> TRUE, options |-> TwoOptions,
       answer |-> [is_str |-> TRUE, key |-> "a", text |-> TextOfKey]],
      [question |-> TRUE, options |-> TwoOptions,
       answer |-> [is_str |-> TRUE, key |-> "", text |-> TextA]],
      [question |-> TRUE, options |-> TwoOptions,
       answer |-> [is_str |-> TRUE, key |-> "", text |-> TextAVariant]],
      [question |-> TRUE, options |-> TwoOptions,
       answer |-> [is_str |-> TRUE, key |-> "", text |-> TextOther]],
      [question |-> FALSE, options |-> <<>>,
       answer |-> [is_str |-> FALSE, key |-> "", text |-> EmptyText]],
      [question |-> TRUE, options |-> <<>>,
       answer |-> [is_str |-> TRUE, key |-> "a", text |-> TextOfKey]] }

\* the documents a validated instance has indexed, as chunk kinds
ValidationDocs == { <<"long">>, <<"long", "long">> }

\* cosine of the retrieval statement to each chunk
StatementSims == { 0 - 20, 45, 90 }

\* cross-encoder outputs (any real number); the separate hypothesis is only
\* scored when no option matches the correct text
RawEntailScores == { 0, 40, 80 }
ExtraEntailScores == { 0 - 40, 40, 120 }

EntailReplies(params, item, has_context) ==
    IF ~params.use_cross_encoder \/ ~has_context
    THEN { [raises |-> FALSE, raw |-> <<>>, extra |-> 0] }
    ELSE { [raises |-> TRUE, raw |-> <<>>, extra |-> 0] }
         \cup { [raises |-> FALSE, raw |-> raw, extra |-> extra] :
                  raw \in [1..Len(item.options) -> RawEntailScores],
                  extra \in IF matched_index(item.options, correct_text_of(item)) > 0
                            THEN {0} ELSE ExtraEntailScores }

QaScores == { 0 - 20, 50, 70 }

QaReplies(params, has_context) ==
    IF ~params.use_qa \/ ~has_context
    THEN { [raises |-> FALSE, score |-> 0] }
    ELSE { [raises |-> TRUE, score |-> 0] }
         \cup { [raises |-> FALSE, score |-> s] : s \in QaScores }

\* cosine of an option to the correct text: 1.0 when they are the same string
OptionSims == { 0, 5, 50, 95 }

DistractorReplies(item) ==
    { [raises |-> TRUE, sims |-> <<>>] }
    \cup { [raises |-> FALSE, sims |-> sims] :
             sims \in { f \in [1..Len(item.options) -> OptionSims \cup {Unit}] :
                          \A i \in 1..Len(item.options) :
                              f[i] = Unit <=> item.options[i].text = correct_text_of(item) } }

\* ---- the call

ValInit ==
    /\ vpc = "idle"
    /\ vparams = NoParams
    /\ vmcqs = 0
    /\ vleft = 0
    /\ vdone = 0
    /\ vitem = NoItem
    /\ vretrieved = <<>>
    /\ vrecord = NoReport

\* validate_mcqs(mcqs, **params) with n entries in mcqs: up to the loop head
StartValidate(params, n) ==
    /\ vpc = "idle"
    /\ vparams' = params
    /\ vmcqs' = n
    /\ vleft' = n
    /\ vdone' = 0
    /\ vpc' = IF n = 0 THEN "returned" ELSE "item"
    /\ UNCHANGED <<vitem, vretrieved, vrecord>>

\* one iteration up to the assembled record (lines 364-563): item is the
\* entry of mcqs, sims the cosine of its statement to each indexed vector;
\* the three models reply as they may
ValidateQuestion(item, sims) ==
    /\ vpc = "item"
    /\ semantic_search_rows = Len(sims)
    /\ \E found \in semantic_search(sims, vparams.top_k),
          entail_reply \in EntailReplies(vparams, item, sims # <<>>),
          qa_reply \in QaReplies(vparams, sims # <<>>),
          distractor_reply \in DistractorReplies(item) :
          /\ vitem' = item
          /\ vretrieved' = found
          /\ IF context_raises(found)
             THEN /\ vpc' = "raised"
                  /\ vrecord' = NoReport
             ELSE /\ vpc' = "store"
                  /\ vrecord' = validate_question(vparams, item, found, entail_reply,
                                                  qa_reply, distractor_reply)
    /\ UNCHANGED <<vparams, vmcqs, vleft, vdone>>

\* an iteration whose _semantic_search raises: nothing was ever indexed
ValidateQuestionUnbuilt(item) ==
    /\ vpc = "item"
    /\ semantic_search_rows < 0
    /\ vitem' = item
    /\ vpc' = "raised"
    /\ UNCHANGED <<vparams, vmcqs, vleft, vdone, vretrieved, vrecord>>

\* the mutant of StoreReport: an entry without a question stem is passed
\* over, nothing being written for it
StoreReport_skipping_stemless ==
    /\ vpc = "store"
    /\ vdone' = IF vitem.question THEN vdone + 1 ELSE vdone
    /\ vleft' = vleft - 1
    /\ vpc' = IF vleft = 1 THEN "returned" ELSE "item"
    /\ vitem' = NoItem
    /\ vretrieved' = <<>>
    /\ vrecord' = NoReport
    /\ UNCHANGED <<vparams, vmcqs>>

\* report[qid] = {...} (line 564), then the next entry or `return report`
StoreReport ==
    /\ vpc = "store"
    /\ vdone' = vdone + 1
    /\ vleft' = vleft - 1
    /\ vpc' = IF vleft = 1 THEN "returned" ELSE "item"
    /\ vitem' = NoItem
    /\ vretrieved' = <<>>
    /\ vrecord' = NoReport
    /\ UNCHANGED <<vparams, vmcqs>>

-----------------------------------------------------------------------------
(* MCQValidationScorer.process_batch_validation and generate_quick_summary *)

NoBatch == [none |-> TRUE]
NoResults == [none |-> TRUE]
NoSummary == [none |-> TRUE]

\* a / b on floats: ZeroDivisionError when b is 0, else the exact quotient
ZeroDivision == [zero_division |-> TRUE]
Divide(a, b) ==
    IF b = 0 THEN ZeroDivision ELSE [zero_division |-> FALSE, num |-> a, den |-> b]

\* the literals 0.0 and 0 the rates start at
ZeroRate == [zero_division |-> FALSE, num |-> 0, den |-> 1]

\* decision_data["decision"].lower(), as the words between its underscores;
\* `"approve" in decision_type` is then membership of a word
decision_words(decision) ==
    CASE decision = "APPROVE" -> { "approve" }
      [] decision = "APPROVE_WITH_REVIEW" -> { "approve", "with", "review" }
      [] decision = "CONDITIONAL_APPROVE" -> { "conditional", "approve" }
      [] decision = "REVIEW_REQUIRED" -> { "review", "required" }
      [] decision = "REJECT_WITH_FEEDBACK" -> { "reject", "with", "feedback" }
      [] decision = "REJECT" -> { "reject" }

\* the mutant of decision_family: "review" looked for first
decision_family_review_first(decision) ==
    LET decision_type == decision_words(decision)
    IN  IF "review" \in decision_type THEN "review_required"
        ELSE IF "approve" \in decision_type /\ "conditional" \notin decision_type
        THEN "approved"
        ELSE IF "conditional" \in decision_type THEN "conditional"
        ELSE "rejected"

\* lines 356-363: the batch_summary counter a decision is added to
decision_family(decision) ==
    LET decision_type == decision_words(decision)
    IN  IF "approve" \in decision_type /\ "conditional" \notin decision_type
        THEN "approved"
        ELSE IF "conditional" \in decision_type THEN "conditional"
        ELSE IF "review" \in decision_type THEN "review_required"
        ELSE "rejected"

Categories == { "EXCELLENT", "GOOD", "ACCEPTABLE", "QUESTIONABLE", "POOR" }

CountOf(s, Test(_)) == Cardinality({ i \in 1..Len(s) : Test(s[i]) })

\* the mutant of quality_concern: fires at a pass rate of one half too
quality_concern_at_half(pass_rate) == 2 * pass_rate.num <= pass_rate.den

\* line 399: metrics["pass_rate"] < 0.5
quality_concern(pass_rate) == 2 * pass_rate.num < pass_rate.den

\* the mutant of excellent_quality: the comparison turned round
excellent_quality_inverted(high_quality_rate) ==
    5 * high_quality_rate.num < 4 * high_quality_rate.den

\* line 407: metrics["high_quality_rate"] > 0.8
excellent_quality(high_quality_rate) == 5 * high_quality_rate.num > 4 * high_quality_rate.den

\* line 415: summary["rejected"] > summary["total"] * 0.3
high_rejection_rate(rejected, total) == 10 * rejected > 3 * total

\* _generate_recommendations, each entry without its message and action
generate_recommendations(quality_metrics, batch_summary) ==
    (IF quality_concern(quality_metrics.pass_rate)
     THEN << [type |-> "QUALITY_CONCERN", severity |-> "HIGH"] >> ELSE <<>>)
    \o (IF excellent_quality(quality_metrics.high_quality_rate)
        THEN << [type |-> "EXCELLENT_QUALITY", severity |-> "INFO"] >> ELSE <<>>)
    \o (IF high_rejection_rate(batch_summary.rejected, batch_summary.total)
        THEN << [type |-> "HIGH_REJECTION_RATE", severity |-> "MEDIUM"] >> ELSE <<>>)

\* the mutant of has_mcq: the membership test left out
has_mcq_always(entry) == entry.in_mcqs \in BOOLEAN

\* lines 339-340: `if qid not in mcqs_with_validation["mcqs"]: continue`
has_mcq(entry) == entry.in_mcqs

\* process_batch_validation.  validation is mcqs_with_validation["validation"]
\* in its order, each entry [qid, in_mcqs, data]: in_mcqs says whether the
\* id is a key of mcqs_with_validation["mcqs"].
process_batch_validation(cfg, validation) ==
    LET kept == SelectSeq(validation, has_mcq)
        processed == [i \in 1..Len(kept) |->
                         [qid |-> kept[i].qid,
                          validation_score |-> calculate_validation_score(cfg, kept[i].data),
                          decision |-> make_quality_decision(cfg, kept[i].data)]]
        scores == [i \in 1..Len(processed) |-> processed[i].validation_score]
        InFamily(f) == CountOf(processed, LAMBDA p : decision_family(p.decision.decision) = f)
        total == Len(processed)
        approved == InFamily("approved")
        conditional == InFamily("conditional")
        average_score == IF scores # <<>> THEN Divide(SumSeq(scores), Len(scores)) ELSE ZeroRate
        pass_rate == IF scores # <<>> /\ total > 0
                     THEN Divide(approved + conditional, total) ELSE ZeroRate
        high_quality_rate == IF scores # <<>> /\ total > 0
                             THEN Divide(approved, total) ELSE ZeroRate
        attention == SelectSeq(processed, LAMBDA p : p.decision.priority \in {"HIGH", "CRITICAL"})
        batch_summary ==
            [total |-> total, approved |-> approved, conditional |-> conditional,
             review_required |-> InFamily("review_required"),
             rejected |-> InFamily("rejected"),
             average_score |-> average_score,
             has_distribution |-> scores # <<>>,
             score_distribution |->
                 [c \in Categories |->
                     CountOf(processed, LAMBDA p : p.decision.category = c)]]
        quality_metrics ==
            [pass_rate |-> pass_rate, high_quality_rate |-> high_quality_rate,
             needs_attention |-> [i \in 1..Len(attention) |-> attention[i].qid]]
    IN  IF ZeroDivision \in {average_score, pass_rate, high_quality_rate}
        THEN [raised |-> TRUE]
        ELSE [raised |-> FALSE,
              processed_questions |-> processed,
              batch_summary |-> batch_summary,
              quality_metrics |-> quality_metrics,
              recommendations |-> generate_recommendations(quality_metrics, batch_summary)]

\* round(x) for x = a / b >= 0, halves up (a format of "%.1f" kind; the
\* batches here are too short for a/b to fall on a half)
RoundDiv(a, b) == (a \div b) + (IF 2 * (a % b) >= b THEN 1 ELSE 0)

\* f"{rate:.1%}": the rate in tenths of a percent
format_percent(rate) == [literal |-> FALSE, permille |-> RoundDiv(1000 * rate.num, rate.den)]

\* f"{average_score:.1f}": the score in tenths of a point
format_score(average) ==
    LET den == average.den * ScoreDen
    IN  10 * (average.num \div den) + RoundDiv(10 * (average.num % den), den)

\* the mutant of pass_rate_text: the division made whatever the total is
pass_rate_text_unguarded(summary) ==
    LET rate == Divide(summary.approved + summary.conditional, summary.total)
    IN  IF rate = ZeroDivision THEN ZeroDivision ELSE format_percent(rate)

\* line 441: the formatted pass rate if total > 0, else the literal "0%"
pass_rate_text(summary) ==
    IF summary.total > 0
    THEN LET rate == Divide(summary.approved + summary.conditional, summary.total)
         IN  IF rate = ZeroDivision THEN ZeroDivision ELSE format_percent(rate)
    ELSE [literal |-> TRUE, permille |-> 0]

\* first n entries of a list: s[:n]
Take(s, n) == [i \in 1..Min(n, Len(s)) |-> s[i]]

\* generate_quick_summary(processed_validation)
generate_quick_summary(processed_validation) ==
    LET summary == processed_validation.batch_summary
        rate_text == pass_rate_text(summary)
    IN  IF rate_text = ZeroDivision
        THEN [raised |-> TRUE]
        ELSE [raised |-> FALSE,
              total_questions |-> summary.total,
              passed |-> summary.approved + summary.conditional,
              failed |-> summary.rejected + summary.review_required,
              pass_rate |-> rate_text,
              average_score |-> format_score(summary.average_score),
              quality_distribution |->
                  [c \in Categories |->
                      IF summary.has_distribution THEN summary.score_distribution[c] ELSE 0],
              top_recommendations |-> Take(processed_validation.recommendations, 3),
              needs_attention |-> processed_validation.quality_metrics.needs_attention]

\* ---- the inputs

\* records that the default config decides APPROVE, APPROVE_WITH_REVIEW,
\* CONDITIONAL_APPROVE, REVIEW_REQUIRED, REJECT_WITH_FEEDBACK and REJECT,
\* and two records as validate_mcqs writes them, without a model_verdict:
\* the best one (similarity 1.0, four pieces of evidence at 1.0) and the
\* worst one
BatchRecords ==
    LET Rec(m, s, ev, sup, conf) ==
            [max_similarity |-> m, supported_by_embeddings |-> s, evidence |-> ev,
             model_verdict |-> [missing |-> FALSE, error |-> FALSE,
                                supported |-> sup, confidence |-> conf],
             correct_entailment |-> 0, qa_score |-> 50, qa_agrees |-> TRUE]
    IN  { Rec(100, TRUE, <<100, 100, 100, 100>>, TRUE, 100),
          Rec(100, TRUE, <<>>, TRUE, 60),
          Rec(50, FALSE, <<>>, TRUE, 80),
          Rec(50, TRUE, <<>>, TRUE, 60),
          Rec(0, FALSE, <<>>, TRUE, 80),
          Rec(0, FALSE, <<>>, FALSE, 60),
          [Rec(100, TRUE, <<100, 100, 100, 100>>, FALSE, 0)
              EXCEPT !.model_verdict = MissingVerdict],
          [Rec(0, FALSE, <<>>, FALSE, 0) EXCEPT !.model_verdict = MissingVerdict] }

\* the validation mappings of up to MaxBatch entries; an id missing from
\* mcqs carries the first record
BatchEntries ==
    [in_mcqs : {TRUE}, data : BatchRecords]
    \cup { [in_mcqs |-> FALSE, data |-> CHOOSE r \in BatchRecords : r.evidence # <<>>] }

Batches ==
    { [i \in 1..Len(b) |-> [qid |-> i, in_mcqs |-> b[i].in_mcqs, data |-> b[i].data]] :
        b \in SeqsUpTo(BatchEntries, MaxBatch) }

\* ---- the calls

BatchInit ==
    /\ batch = NoBatch
    /\ results = NoResults
    /\ quick = NoSummary

\* results = scorer.process_batch_validation({"mcqs": ..., "validation": ...})
ProcessBatchValidation(validation) ==
    /\ scorer # NoScorer
    /\ results = NoResults
    /\ batch' = [validation |-> validation]
    /\ results' = process_batch_validation(scorer, validation)
    /\ UNCHANGED <<quick, scorerVars>>

\* generate_quick_summary(results)
GenerateQuickSummary ==
    /\ results # NoResults
    /\ ~results.raised
    /\ quick = NoSummary
    /\ quick' = generate_quick_summary(results)
    /\ UNCHANGED <<batch, results, scorerVars>>

\* the caller drops the report
DropResults ==
    /\ results # NoResults
    /\ batch' = NoBatch
    /\ results' = NoResults
    /\ quick' = NoSummary
    /\ UNCHANGED scorerVars

-----------------------------------------------------------------------------
(* The scorer's specification *)

Init ==
    /\ ScorerInit
    /\ hasFaiss = FALSE
    /\ IndexInit
    /\ GenInit
    /\ ValInit
    /\ BatchInit

Next ==
    \/ \E config \in ConfigArgs \cup {ConfigNone} :
          Construct(config) /\ UNCHANGED <<indexVars, genVars, valVars, batchVars>>
    \/ \E validation_data \in Records :
          MakeQualityDecision(validation_data) /\ UNCHANGED <<indexVars, genVars, valVars, batchVars>>
    \/ DropPayload /\ UNCHANGED <<indexVars, genVars, valVars, batchVars>>

Spec == Init /\ [][Next]_vars

-----------------------------------------------------------------------------
(* The index specification: builds and queries on one RAGMCQ instance *)

InitIndex ==
    /\ ScorerInit
    /\ hasFaiss \in BOOLEAN
    /\ IndexInit
    /\ GenInit
    /\ ValInit
    /\ BatchInit

NextIndex ==
    \/ \E kinds \in SeqsUpTo({"long"}, MaxChunks), outcome \in BuildOutcomes :
          BuildIndexFromPdf(kinds, outcome) /\ UNCHANGED <<scorerVars, genVars, valVars, batchVars>>
    \/ \E n \in 1..MaxChunks, top_k \in 1..MaxTopK :
          \E sims \in [1..n -> SimValues] :
              Retrieve(sims, top_k) /\ UNCHANGED <<scorerVars, genVars, valVars, batchVars>>
    \/ RetrieveUnbuilt /\ UNCHANGED <<scorerVars, genVars, valVars, batchVars>>
    \/ DropRetrieved /\ UNCHANGED <<scorerVars, genVars, valVars, batchVars>>

SpecIndex == InitIndex /\ [][NextIndex]_vars

-----------------------------------------------------------------------------
(* The generation specification: one generate call on a fresh instance *)

InitGenerate ==
    /\ ScorerInit
    /\ hasFaiss \in BOOLEAN
    /\ IndexInit
    /\ GenInit
    /\ ValInit
    /\ BatchInit

NextGenerate ==
    \/ \E kinds \in SeqsUpTo(PdfKinds, MaxChunks), outcome \in BuildOutcomes,
          n \in 0..MaxQuestions, m \in Modes, per \in 1..MaxPerUnit :
          StartGenerateFromPdf(kinds, outcome, n, m, per) /\ UNCHANGED <<scorerVars, valVars, batchVars>>
    \/ \E kinds \in SeqsUpTo(QdrantKinds, MaxChunks), outcome \in QdrantOutcomes,
          n \in 0..MaxQuestions, m \in Modes, per \in 1..MaxPerUnit :
          StartGenerateFromQdrant(kinds, outcome, n, m, per) /\ UNCHANGED <<scorerVars, valVars, batchVars>>
    \/ \E seed_idx \in 1..MaxChunks, reply \in Replies :
          RagAttempt(seed_idx, reply) /\ UNCHANGED <<scorerVars, valVars, batchVars>>
    \/ RagExhausted /\ UNCHANGED <<scorerVars, valVars, batchVars>>
    \/ \E reply \in Replies : PerUnitStep(reply) /\ UNCHANGED <<scorerVars, valVars, batchVars>>
    \/ PerUnitExhausted /\ UNCHANGED <<scorerVars, valVars, batchVars>>

SpecGenerate == InitGenerate /\ [][NextGenerate]_vars

-----------------------------------------------------------------------------
(* The validation specification: one validate_mcqs call on an instance    *)
(* that is fresh or has indexed one document                              *)

InitValidate ==
    /\ ScorerInit
    /\ hasFaiss \in BOOLEAN
    /\ \E kinds \in ValidationDocs \cup { <<>> } :
          IF kinds = <<>>
          THEN IndexInit
          ELSE LET emb == [gen |-> 1, n |-> Len(kinds)]
               IN  /\ texts = [i \in 1..Len(kinds) |-> [gen |-> 1, kind |-> kinds[i]]]
                   /\ metadata = [i \in 1..Len(kinds) |-> [gen |-> 1]]
                   /\ embeddings = emb
                   /\ index = build_faiss_index(emb)
                   /\ builds = 1
                   /\ retrieved = NoRetrieval
    /\ GenInit
    /\ ValInit
    /\ BatchInit

NextValidate ==
    \/ \E params \in ParamSets, n \in 0..MaxMcqs :
          StartValidate(params, n) /\ UNCHANGED <<scorerVars, indexVars, genVars, batchVars>>
    \/ \E item \in Items, doc \in ValidationDocs :
          \E sims \in [1..Len(doc) -> StatementSims] :
              ValidateQuestion(item, sims) /\ UNCHANGED <<scorerVars, indexVars, genVars, batchVars>>
    \/ \E item \in Items :
          ValidateQuestionUnbuilt(item) /\ UNCHANGED <<scorerVars, indexVars, genVars, batchVars>>
    \/ StoreReport /\ UNCHANGED <<scorerVars, indexVars, genVars, batchVars>>

SpecValidate == InitValidate /\ [][NextValidate]_vars

-----------------------------------------------------------------------------
(* The batch specification: a scorer is constructed, then processes batches *)

InitBatch ==
    /\ ScorerInit
    /\ hasFaiss = FALSE
    /\ IndexInit
    /\ GenInit
    /\ ValInit
    /\ BatchInit

NextBatch ==
    \/ \E config \in ConfigArgs \cup {ConfigNone} :
          Construct(config) /\ UNCHANGED <<indexVars, genVars, valVars, batchVars>>
    \/ \E validation \in Batches :
          ProcessBatchValidation(validation) /\ UNCHANGED <<indexVars, genVars, valVars>>
    \/ GenerateQuickSummary /\ UNCHANGED <<indexVars, genVars, valVars>>
    \/ DropResults /\ UNCHANGED <<indexVars, genVars, valVars>>

SpecBatch == InitBatch /\ [][NextBatch]_vars

-----------------------------------------------------------------------------
(* Claims about the scorer *)

Scored == payload # NoPayload

\* C1: for every config that passes construction and every validation
\* record, calculate_validation_score returns s with 0 <= s <= 100.
C1_ScoreInRange ==
    Scored => (0 <= payload.score /\ payload.score <= 100 * ScoreDen)

\* a call whose weighted total lies outside 0..100 before the clamp
C1_Witness ==
    /\ Scored
    /\ \/ weighted_total(scorer, record) > 100 * ScoreDen
       \/ weighted_total(scorer, record) < 0

ConstructedWith(config) == configArg # NotCalled /\ configArg # ConfigNone /\ configArg = config

\* the invalid configs, in the words of the claim
WeightsOff(c) ==
    Abs(c.embedding_weight + c.model_weight + c.evidence_weight - WeightUnit) > 1
ThresholdsOutOfOrder(c) ==
    ~(/\ c.questionable_threshold <= c.acceptable_threshold
      /\ c.acceptable_threshold <= c.good_threshold
      /\ c.good_threshold <= c.excellent_threshold)
CutoffOutside(x) == x < 0 \/ x > Unit

\* C3: construction fails, and produces no config/scorer object, whenever
\* the weights do not sum to 1.0 within 1e-3, or the four thresholds are not
\* ascending, or similarity_threshold or evidence_cutoff is outside [0,1].
C3_InvalidConfigFails ==
    \A c \in ConfigArgs :
        (/\ ConstructedWith(c)
         /\ \/ WeightsOff(c)
            \/ ThresholdsOutOfOrder(c)
            \/ CutoffOutside(c.similarity_threshold)
            \/ CutoffOutside(c.evidence_cutoff))
        => (constructRaised /\ scorer = NoScorer)

\* a construction that failed on the threshold order alone
C3_Witness ==
    \E c \in ConfigArgs :
        /\ ConstructedWith(c)
        /\ ThresholdsOutOfOrder(c)
        /\ ~WeightsOff(c)
        /\ ~CutoffOutside(c.similarity_threshold)
        /\ ~CutoffOutside(c.evidence_cutoff)
        /\ constructRaised

RaisedValues == { 0, 50, 100 }

\* C4: for every config that passes construction, the score never drops
\* when max_similarity, correct_entailment, or qa_score (qa_agrees true) is
\* raised with all other record fields and the config fixed.
C4_Monotone ==
    Scored =>
        /\ \A m \in MaxSimilarities :
              m >= record.max_similarity =>
                calculate_validation_score(scorer, [record EXCEPT !.max_similarity = m])
                    >= payload.score
        /\ \A e \in RaisedValues :
              e >= record.correct_entailment =>
                calculate_validation_score(scorer, [record EXCEPT !.correct_entailment = e])
                    >= payload.score
        /\ \A q \in RaisedValues :
              (record.qa_agrees /\ q >= record.qa_score) =>
                calculate_validation_score(scorer, [record EXCEPT !.qa_score = q])
                    >= payload.score

IsPerfectRecord(r) ==
    /\ r.max_similarity = Unit
    /\ r.supported_by_embeddings
    /\ r.model_verdict = [missing |-> FALSE, error |-> FALSE, supported |-> TRUE, confidence |-> Unit]
    /\ r.evidence = <<Unit, Unit, Unit, Unit>>

\* C5: under the default config the record {max_similarity 1.0, supported by
\* embeddings, verdict supported with confidence 1.0, four evidence entries
\* of score 1.0} scores exactly 100.0 and is decided APPROVE.
C5_PerfectRecord ==
    (Scored /\ scorer = DefaultConfig /\ IsPerfectRecord(record))
        => (payload.score = 100 * ScoreDen /\ payload.decision = "APPROVE")

C5_Witness == Scored /\ scorer = DefaultConfig /\ IsPerfectRecord(record)

IsZeroRecord(r) ==
    /\ r.evidence = <<>>
    /\ r.model_verdict.missing
    /\ r.max_similarity = 0
    /\ ~r.supported_by_embeddings

\* C6 as stated: a record with empty evidence, no model_verdict and
\* max_similarity 0.0 scores exactly 0.0 and is decided REJECT by the scorer.
C6_ZeroRecordRejected ==
    (Scored /\ IsZeroRecord(record))
        => (payload.score = 0 /\ payload.decision = "REJECT")

\* C6 amended: such a record scores exactly 0.0 under every config, and is
\* decided REJECT by every scorer whose questionable_threshold is above 0.
C6_ZeroRecordRejectedAboveZero ==
    (Scored /\ IsZeroRecord(record))
        => /\ payload.score = 0
           /\ scorer.questionable_threshold > 0 => payload.decision = "REJECT"

C6_Witness ==
    Scored /\ IsZeroRecord(record) /\ scorer.questionable_threshold > 0

\* C7 as stated: for a fixed config, two evaluations that see the same score
\* yield the same category and the same decision.
C7_ScoreDeterminesDecision ==
    Scored =>
        \A r \in Records :
            calculate_validation_score(scorer, r) = payload.score =>
                LET p == make_quality_decision(scorer, r)
                IN  p.category = payload.category /\ p.decision = payload.decision

\* C7 amended: two evaluations that see the same score yield the same
\* category; they yield the same decision if their model verdicts also agree
\* on "supported with confidence >= 0.8".
C7_ScoreAndSupportDetermineDecision ==
    Scored =>
        \A r \in Records :
            calculate_validation_score(scorer, r) = payload.score =>
                LET p == make_quality_decision(scorer, r)
                IN  /\ p.category = payload.category
                    /\ (strong_model_support(r.model_verdict)
                            = strong_model_support(record.model_verdict))
                        => p.decision = payload.decision

\* an ACCEPTABLE evaluation whose score another record, with a different
\* embedding similarity, reaches too
C7_Witness ==
    /\ Scored
    /\ payload.category = "ACCEPTABLE"
    /\ \E r \in Records :
          /\ r.max_similarity # record.max_similarity
          /\ calculate_validation_score(scorer, r) = payload.score

\* the band of a score between the four ascending thresholds
BandOf(cfg, score) ==
    IF score >= cfg.excellent_threshold * ScoreDen THEN "EXCELLENT"
    ELSE IF score >= cfg.good_threshold * ScoreDen THEN "GOOD"
    ELSE IF score >= cfg.acceptable_threshold * ScoreDen THEN "ACCEPTABLE"
    ELSE IF score >= cfg.questionable_threshold * ScoreDen THEN "QUESTIONABLE"
    ELSE "POOR"

\* the decision / priority pairs each category goes with
DecisionsOf(category) ==
    CASE category = "EXCELLENT" -> { <<"APPROVE", "LOW">> }
      [] category = "GOOD" -> { <<"APPROVE_WITH_REVIEW", "LOW">> }
      [] category = "ACCEPTABLE" -> { <<"CONDITIONAL_APPROVE", "MEDIUM">>,
                                      <<"REVIEW_REQUIRED", "HIGH">> }
      [] category = "QUESTIONABLE" -> { <<"REJECT_WITH_FEEDBACK", "HIGH">> }
      [] category = "POOR" -> { <<"REJECT", "CRITICAL">> }

\* C14: the payload of make_quality_decision is consistent: EXCELLENT goes
\* with APPROVE / LOW, GOOD with APPROVE_WITH_REVIEW / LOW, ACCEPTABLE with
\* CONDITIONAL_APPROVE / MEDIUM or REVIEW_REQUIRED / HIGH, QUESTIONABLE with
\* REJECT_WITH_FEEDBACK / HIGH, POOR with REJECT / CRITICAL, and the category
\* is the band of the returned score between the four thresholds.
C14_PayloadConsistent ==
    Scored =>
        /\ payload.category = BandOf(scorer, payload.score)
        /\ payload.score = calculate_validation_score(scorer, record)
        /\ <<payload.decision, payload.priority>> \in DecisionsOf(payload.category)

\* a score exactly on the questionable threshold: QUESTIONABLE, not POOR
C14_Witness ==
    /\ Scored
    /\ payload.score = scorer.questionable_threshold * ScoreDen
    /\ payload.category = "QUESTIONABLE"
    /\ payload.decision = "REJECT_WITH_FEEDBACK"

InAcceptableBand ==
    /\ Scored
    /\ scorer.acceptable_threshold * ScoreDen <= payload.score
    /\ payload.score < scorer.good_threshold * ScoreDen

\* C15: with the score in the ACCEPTABLE band, make_quality_decision
\* returns CONDITIONAL_APPROVE iff the model verdict shows supported = true
\* with confidence >= 0.8, and REVIEW_REQUIRED otherwise; a missing verdict
\* and a verdict that carries an error are among the "otherwise".
C15_AcceptableBand ==
    InAcceptableBand =>
        LET v == record.model_verdict
            shown == ~v.missing /\ v.supported /\ v.confidence * 10 >= 8 * Unit
        IN  /\ shown /\ ~v.error => payload.decision = "CONDITIONAL_APPROVE"
            /\ ~shown => payload.decision = "REVIEW_REQUIRED"
            /\ (v.missing \/ v.error) => payload.decision = "REVIEW_REQUIRED"

-----------------------------------------------------------------------------
(* Claims about batch processing *)

Processed == results # NoResults /\ ~results.raised

\* the batch call's validation mapping has no id that mcqs has
NoneInMcqs ==
    /\ results # NoResults
    /\ \A i \in 1..Len(batch.validation) : ~batch.validation[i].in_mcqs

\* C11: process_batch_validation on an empty validation mapping, or one
\* none of whose ids are in mcqs, returns without error a report with
\* total = 0, pass_rate = 0 and high_quality_rate = 0, and
\* generate_quick_summary on that report returns without dividing by zero.
C11_EmptyBatch ==
    NoneInMcqs =>
        /\ ~results.raised
        /\ results.batch_summary.total = 0
        /\ results.quality_metrics.pass_rate.num = 0
        /\ results.quality_metrics.high_quality_rate.num = 0
        /\ quick # NoSummary => ~quick.raised

\* a non-empty validation mapping with no id in mcqs, summarised
C11_Witness ==
    /\ NoneInMcqs
    /\ batch.validation # <<>>
    /\ quick # NoSummary
    /\ quick.total_questions = 0

\* the decision families, in the words of the claim
FamilyDecisions(family) ==
    CASE family = "approved" -> { "APPROVE", "APPROVE_WITH_REVIEW" }
      [] family = "conditional" -> { "CONDITIONAL_APPROVE" }
      [] family = "review_required" -> { "REVIEW_REQUIRED" }
      [] family = "rejected" -> { "REJECT_WITH_FEEDBACK", "REJECT" }

DecidedIn(family) ==
    Cardinality({ i \in 1..Len(results.processed_questions) :
        results.processed_questions[i].decision.decision \in FamilyDecisions(family) })

SameRate(rate, num, den) == rate.num * den = num * rate.den

\* C16: every processed question is counted in exactly one decision family
\* (APPROVE and APPROVE_WITH_REVIEW approved, CONDITIONAL_APPROVE
\* conditional, REVIEW_REQUIRED review_required, REJECT_WITH_FEEDBACK and
\* REJECT rejected), so total = approved + conditional + review_required +
\* rejected = the sum of the category counts = the number of processed
\* questions, pass_rate = (approved + conditional) / total and
\* high_quality_rate = approved / total.
C16_BatchTally ==
    Processed =>
        LET b == results.batch_summary
            m == results.quality_metrics
            in_mcqs == Cardinality({ i \in 1..Len(batch.validation) :
                                       batch.validation[i].in_mcqs })
        IN  /\ b.approved = DecidedIn("approved")
            /\ b.conditional = DecidedIn("conditional")
            /\ b.review_required = DecidedIn("review_required")
            /\ b.rejected = DecidedIn("rejected")
            /\ b.total = b.approved + b.conditional + b.review_required + b.rejected
            /\ b.total = SumSeq([i \in 1..5 |->
                   b.score_distribution[<<"EXCELLENT", "GOOD", "ACCEPTABLE",
                                          "QUESTIONABLE", "POOR">>[i]]])
            /\ b.total = Len(results.processed_questions)
            /\ b.total = in_mcqs
            /\ b.total > 0 =>
                  /\ SameRate(m.pass_rate, b.approved + b.conditional, b.total)
                  /\ SameRate(m.high_quality_rate, b.approved, b.total)

\* a batch with an APPROVE_WITH_REVIEW, a CONDITIONAL_APPROVE and a
\* REVIEW_REQUIRED question
C16_Witness ==
    /\ Processed
    /\ \A d \in { "APPROVE_WITH_REVIEW", "CONDITIONAL_APPROVE", "REVIEW_REQUIRED" } :
          \E i \in 1..Len(results.processed_questions) :
              results.processed_questions[i].decision.decision = d

Recommended(type, severity) ==
    Cardinality({ i \in 1..Len(results.recommendations) :
        results.recommendations[i] = [type |-> type, severity |-> severity] })

\* C17: the three recommendations fire independently, each iff its own
\* condition holds: HIGH QUALITY_CONCERN iff pass_rate < 0.5, INFO
\* EXCELLENT_QUALITY iff high_quality_rate > 0.8, MEDIUM HIGH_REJECTION_RATE
\* iff rejected > 0.3 * total; the list holds exactly the fired ones.
C17_Recommendations ==
    Processed =>
        LET b == results.batch_summary
            m == results.quality_metrics
            concern == IF 2 * m.pass_rate.num < m.pass_rate.den THEN 1 ELSE 0
            excellent == IF 5 * m.high_quality_rate.num > 4 * m.high_quality_rate.den
                         THEN 1 ELSE 0
            rejection == IF 10 * b.rejected > 3 * b.total THEN 1 ELSE 0
        IN  /\ Recommended("QUALITY_CONCERN", "HIGH") = concern
            /\ Recommended("EXCELLENT_QUALITY", "INFO") = excellent
            /\ Recommended("HIGH_REJECTION_RATE", "MEDIUM") = rejection
            /\ Len(results.recommendations) = concern + excellent + rejection

\* a batch with a pass rate of exactly one half: no QUALITY_CONCERN, and
\* HIGH_REJECTION_RATE alone fires
C17_Witness ==
    /\ Processed
    /\ results.batch_summary.total > 0
    /\ SameRate(results.quality_metrics.pass_rate, 1, 2)
    /\ results.recommendations = << [type |-> "HIGH_REJECTION_RATE", severity |-> "MEDIUM"] >>

\* the ids of a list of entries, in order
QidsOf(s) == [i \in 1..Len(s) |-> s[i].qid]

\* C27: process_batch_validation processes exactly the ids that are in
\* both validation and mcqs; validation records whose id mcqs lacks are
\* skipped without error and change nothing in the report (total, counts,
\* average_score, needs_attention); needs_attention is exactly the
\* processed ids whose decision has priority HIGH or CRITICAL.
C27_ExactlyTheMatching ==
    results # NoResults =>
        LET matching == SelectSeq(batch.validation, LAMBDA e : e.in_mcqs)
            urgent == SelectSeq(matching, LAMBDA e :
                          make_quality_decision(scorer, e.data).priority
                              \in {"HIGH", "CRITICAL"})
        IN  /\ ~results.raised
            /\ QidsOf(results.processed_questions) = QidsOf(matching)
            /\ results.batch_summary.total = Len(matching)
            /\ results = process_batch_validation(scorer, matching)
            /\ results.quality_metrics.needs_attention = QidsOf(urgent)

\* a batch with an id mcqs lacks between two processed ones, one of them
\* needing attention and the other not
C27_Witness ==
    /\ Processed
    /\ Len(batch.validation) = 3
    /\ ~batch.validation[2].in_mcqs
    /\ Len(results.processed_questions) = 2
    /\ Len(results.quality_metrics.needs_attention) = 1

\* the batch is made of records as validate_mcqs writes them: no model
\* verdict, similarity and evidence scores within 0..1
OnlyValidatorRecords ==
    \A i \in 1..Len(batch.validation) :
        LET d == batch.validation[i].data
        IN  /\ d.model_verdict = MissingVerdict
            /\ 0 <= d.max_similarity /\ d.max_similarity <= Unit
            /\ \A j \in 1..Len(d.evidence) : 0 <= d.evidence[j] /\ d.evidence[j] <= Unit

C30_RatesOrdered ==
    Processed =>
        LET hq == results.quality_metrics.high_quality_rate
            pr == results.quality_metrics.pass_rate
        IN  /\ hq.den > 0 /\ pr.den > 0
            /\ 0 <= hq.num
            /\ hq.num * pr.den <= pr.num * hq.den
            /\ pr.num <= pr.den
            /\ ~(/\ Recommended("QUALITY_CONCERN", "HIGH") > 0
                 /\ Recommended("EXCELLENT_QUALITY", "INFO") > 0)
            /\ results.batch_summary.total = 0 =>
                   Recommended("QUALITY_CONCERN", "HIGH") = 1

\* a batch with 0 < high_quality_rate < pass_rate < 1: an approved, a
\* conditionally approved and a third question
C30_Witness ==
    /\ Processed
    /\ results.batch_summary.total > 0
    /\ results.quality_metrics.high_quality_rate.num > 0
    /\ results.quality_metrics.high_quality_rate.num
          < results.quality_metrics.pass_rate.num
    /\ results.quality_metrics.pass_rate.num < results.quality_metrics.pass_rate.den

-----------------------------------------------------------------------------
(* Claims about retrieval *)

\* C8: _retrieve(query, top_k = k) returns at most k (chunk index, score)
\* pairs, fewer only when the index holds fewer than k chunks, ordered by
\* descending score, equal scores by chunk insertion index.
C8_RetrieveOrdered ==
    retrieved.status = "ok" =>
        LET r == retrieved.result
        IN  /\ Len(r) <= retrieved.top_k
            /\ Len(r) < retrieved.top_k => Len(retrieved.sims) < retrieved.top_k
            /\ \A i, j \in 1..Len(r) :
                  i < j => \/ r[i].score > r[j].score
                           \/ (r[i].score = r[j].score /\ r[i].idx < r[j].idx)

\* the generation of the vectors a query runs against
QueriedGeneration == IF hasFaiss THEN index.gen ELSE embeddings.gen

\* C24: after any sequence of (re)builds, failed ones included, what can be
\* queried is one generation: the number of indexed vectors equals
\* len(texts) equals len(metadata), and the chunks are those the vectors
\* were computed from, never new chunks beside the previous vectors.
C24_OneGeneration ==
    /\ Len(texts) = Len(metadata)
    /\ retrieve_rows >= 0 =>
           /\ retrieve_rows = Len(texts)
           /\ \A i \in 1..Len(texts) : texts[i].gen = QueriedGeneration

-----------------------------------------------------------------------------
(* Claims about generation *)

\* a rag-mode call whose index set-up went through
RagStarted == mode = "rag" /\ pc # "idle" /\ error # "BuildError"

\* C9: in rag mode, for every n >= 0 and whatever the chunk texts are, if
\* every generation call fails the loop makes exactly 4*n attempts, then
\* returns an empty mapping without raising.
C9_AllFailedExhaustsBudget ==
    (RagStarted /\ calls.ok = 0 /\ calls.badkeys = 0) =>
        /\ pc # "raised"
        /\ attempts <= 4 * n_questions
        /\ pc = "returned" => (attempts = 4 * n_questions /\ output = EmptyOutput)

\* C10: in rag mode, for any interleaving of succeeding and failing calls,
\* the loop ends within 4*n attempts; it returns n questions if n calls
\* succeeded within the budget, else one question per successful call; a
\* failed call consumes one attempt without raising.
C10_RagLoopBounded ==
    (RagStarted /\ calls.badkeys = 0) =>
        /\ pc # "raised"
        /\ attempts <= 4 * n_questions
        /\ attempts = calls.ok + calls.failed
        /\ pc = "returned" =>
              /\ DOMAIN output = 1..Min(n_questions, calls.ok)
              /\ calls.ok < n_questions => attempts = 4 * n_questions

\* a per-page / per-chunk call whose index set-up went through
PerUnitStarted == mode = "per_unit" /\ pc # "idle" /\ error # "BuildError"

\* C18: in per-unit mode, for every requested total n >= 0 and every batch
\* size, the returned mapping never holds more than n questions.
C18_PerUnitAtMostN ==
    (PerUnitStarted /\ pc = "returned") => Cardinality(DOMAIN output) <= n_questions

\* item a was accepted before item b
AcceptedBefore(a, b) == a.call < b.call \/ (a.call = b.call /\ a.entry < b.entry)

\* C19: in every generation mode, whatever units were skipped and attempts
\* failed, the keys of the returned mapping are exactly "1".."m", m the
\* number of accepted questions, given in acceptance order, with no gap and
\* no duplicate.
C19_DenseKeys ==
    pc = "returned" =>
        /\ DOMAIN output = 1..qcount
        /\ \A i, j \in DOMAIN output : i < j => AcceptedBefore(output[i], output[j])

\* a returned mapping whose questions come from two replies, with a failed
\* call and a skipped or failed unit before the last of them
C19_Witness ==
    /\ pc = "returned"
    /\ calls.failed > 0
    /\ qcount >= 2
    /\ \E i, j \in DOMAIN output : output[i].call # output[j].call

\* C20: a shape violation of the generator's reply (no mapping, not exactly
\* n entries, keys that are not numerals) is a skippable failure of that
\* unit or attempt in both modes: the generate call does not raise.
C20_ShapeViolationSkipped ==
    (calls.failed > 0 \/ calls.badkeys > 0) => error # "ValueError"

\* C26: a rag attempt whose picked chunk has no sentence longer than 20
\* characters does not fail: the seed falls back to the head of the chunk
\* and the attempt goes on to retrieval and generation, in generate_from_pdf
\* as in generate_from_qdrant.
C26_SeedFallsBack ==
    mode = "rag" => ~(pc = "raised" /\ error = "IndexError")

-----------------------------------------------------------------------------
(* Claims about validate_mcqs *)

\* the weighted sum a stored record's quality_score was clamped from
PreClampQuality(r) ==
    weighted_quality(r.max_similarity, r.correct_entailment,
                     [agrees |-> r.qa_agrees, score |-> r.qa_score],
                     r.distractor_penalty)

\* C2: every per-question record validate_mcqs emits has
\* 0 <= quality_score <= 1, whatever the retrieved similarity scores, the
\* correct_entailment of the separate-hypothesis fallback (which may lie
\* outside 0..1), the QA score and the distractor penalty are.
C2_QualityInRange ==
    vrecord # NoReport =>
        /\ 0 <= vrecord.quality_score
        /\ vrecord.quality_score <= QualDen

\* a record whose fallback entailment is above 1.0 and whose weighted sum
\* is above 1.0, emitted with quality_score 1.0
C2_Witness ==
    /\ vrecord # NoReport
    /\ vrecord.correct_entailment > Unit
    /\ PreClampQuality(vrecord) > QualDen
    /\ vrecord.quality_score = QualDen

\* the reason option i of the stored record was flagged with, "none" when
\* distractor_flags has no entry for it
FlaggedAs(r, i) ==
    LET key == r.distractor_similarities[i].key
        hit == { j \in 1..Len(r.distractor_flags) : r.distractor_flags[j].key = key }
    IN  IF hit = {} THEN "none" ELSE r.distractor_flags[CHOOSE j \in hit : TRUE].reason

\* C12: every option whose similarity s to the correct answer is computed
\* and is not a near-identical (self) match is in distractor_flags as
\* too_similar if s >= distractor_too_similar, as too_different if
\* s <= distractor_too_different, and is not in distractor_flags otherwise.
C12_DistractorFlags ==
    vrecord # NoReport =>
        \A i \in 1..Len(vrecord.distractor_similarities) :
            LET d == vrecord.distractor_similarities[i]
            IN  (~d.none /\ d.sim < Unit) =>
                    FlaggedAs(vrecord, i) =
                        IF d.sim >= vparams.distractor_too_similar THEN "too_similar"
                        ELSE IF d.sim <= vparams.distractor_too_different THEN "too_different"
                        ELSE "none"

Ambiguous(r) == r.ambiguous_options # <<>>

\* C13: the triage_action of every record is "pass" iff quality_score >=
\* auto_accept_threshold and the question is not ambiguous; otherwise
\* "review" iff quality_score >= review_threshold; otherwise "reject".  A
\* question marked ambiguous is never "pass", whatever the thresholds.
C13_Triage ==
    vrecord # NoReport =>
        LET q == vrecord.quality_score
            accept == q >= 100 * vparams.auto_accept_threshold /\ ~Ambiguous(vrecord)
            review == q >= 100 * vparams.review_threshold
        IN  /\ vrecord.triage_action = "pass" <=> accept
            /\ ~accept => (vrecord.triage_action = "review" <=> review)
            /\ (~accept /\ ~review) => vrecord.triage_action = "reject"
            /\ Ambiguous(vrecord) => vrecord.triage_action # "pass"

\* an ambiguous question whose quality_score reaches the auto-accept
\* threshold and is sent to review
C13_Witness ==
    /\ vrecord # NoReport
    /\ Ambiguous(vrecord)
    /\ vrecord.quality_score >= 100 * vparams.auto_accept_threshold
    /\ vrecord.triage_action = "review"

\* C25: validate_mcqs on an instance on which no index build has succeeded
\* ends in an error: it assembles no record and returns no report.
C25_UnbuiltValidateFails ==
    semantic_search_rows < 0 => vpc \notin {"store", "returned"}

\* the instance has something to search: a build went through
IndexBuilt == semantic_search_rows >= 0

\* an entry of mcqs with none of the question, options and answer fields
IsFieldless(item) ==
    /\ item # NoItem
    /\ ~item.question
    /\ item.options = <<>>
    /\ ~item.answer.is_str

RetrievedScores == [i \in 1..Len(vretrieved) |-> vretrieved[i].score]

\* C22: max_similarity is the largest score among all retrieved candidates,
\* also those below evidence_score_cutoff, which are left out of the
\* evidence list only; supported_by_embeddings is true iff that largest
\* score is >= similarity_threshold, whatever the scores (all negative
\* included) and the threshold are.
C22_MaxOverRetrieved ==
    (vrecord # NoReport /\ vretrieved # <<>>) =>
        /\ vrecord.max_similarity = SeqMax(RetrievedScores)
        /\ vrecord.supported_by_embeddings <=>
               SeqMax(RetrievedScores) >= vparams.similarity_threshold
        /\ vrecord.evidence =
               SelectSeq(vretrieved, LAMBDA r : r.score >= vparams.evidence_score_cutoff)

\* option i of the item is the one identified as the correct answer: its
\* text equals the correct text once both are normalised
IsCorrectOption(item, i) ==
    norm_text(item.options[i].text) = norm_text(correct_text_of(item))

ListedAmbiguous(r, key) ==
    \E j \in 1..Len(r.ambiguous_options) : r.ambiguous_options[j].key = key

HasReason(r, reason) == \E j \in 1..Len(r.flag_reasons) : r.flag_reasons[j] = reason

\* C23: the option identified as the correct answer never appears in
\* ambiguous_options; every other option appears there iff its entailment
\* score is >= max(correct_entailment * 0.9, 0.6); and the question is
\* ambiguous iff that list is non-empty.
C23_OnlyOthersAmbiguous ==
    vrecord # NoReport =>
        /\ \A i \in 1..Len(vrecord.entailment_scores) :
               LET e == vrecord.entailment_scores[i]
               IN  IF IsCorrectOption(vitem, i)
                   THEN ~ListedAmbiguous(vrecord, e.key)
                   ELSE ListedAmbiguous(vrecord, e.key) <=>
                           e.score * 10 >= Max(vrecord.correct_entailment * 9, 6 * Unit)
        /\ vrecord.entailment_scores = <<>> => vrecord.ambiguous_options = <<>>
        /\ HasReason(vrecord, "ambiguous_options_supported") <=> Ambiguous(vrecord)

\* C29: no record carries the flag reason qa_contradiction: qa_agrees is
\* qa_score >= 0.5 on the very qa_score the flag tests for > 0.6, and a
\* failed QA step leaves qa_score at 0.0.
C29_NoQaContradiction ==
    vrecord # NoReport => ~HasReason(vrecord, "qa_contradiction")

\* a record whose QA answer was computed with a score above 0.6, the first
\* half of the flag's condition
C29_Witness ==
    /\ vrecord # NoReport
    /\ vparams.use_qa
    /\ vrecord.qa_answered
    /\ vrecord.qa_score > 60
    /\ vrecord.qa_agrees

=============================================================================
